---- MODULE Spec2Model ----
(***************************************************************************)
(* The model registry and orchestrator of src/api/main.py: the in-memory   *)
(* REGISTRY dictionary, the upload_model and promote_model handlers and    *)
(* the run_validation_and_canary / orchestrator_create_canary pipeline.    *)
(*                                                                         *)
(* upload_model is a coroutine on the event loop, promote_model and the    *)
(* background pipeline are plain functions that the framework runs on      *)
(* worker threads, so the handlers interleave statement by statement.      *)
(* Every statement that reads or writes REGISTRY is a step of its own.     *)
(***************************************************************************)
EXTENDS Integers, FiniteSets, Sequences, TLC

\* Number of upload_model calls and of promote_model calls in a behaviour.
\* The calls of each handler are numbered in the order in which they begin.
MaxUploads == 2
MaxPromotes == 2

UploadCalls == 1..MaxUploads
PromoteCalls == 1..MaxPromotes

\* uuid4() gives every upload call its own id: the id of call u is u.
\* UnknownId is an id no upload ever generates.
UnknownId == MaxUploads + 1
ModelIds == UploadCalls \cup {UnknownId}

\* ModelMetadata.name values of the uploads.
Names == {"x", "y"}

\* The approver header: absent (Python None), empty, or an identity.
None == "<None>"
Approvers == {None, "", "alice"}

VARIABLES
    REGISTRY,   \* dict model_id -> [name, status]; DOMAIN = the keys present
    STORE,      \* per model id: what exists under MODEL_STORE/<model_id>
    up,         \* per upload call: position, inputs and response
    rv,         \* per model id: position of run_validation_and_canary
    pr          \* per promote call: position, inputs and response

vars == <<REGISTRY, STORE, up, rv, pr>>

\* `not approver` of promote_model: None and "" are both falsy.
Truthy_NoCheck(approver) == TRUE
Truthy(approver) == approver # None /\ approver # ""

\* The constant outcome of the validation stub.
passed_Failing == FALSE
passed == TRUE

\* REGISTRY.get(model_id) gives a record (a non-empty dict, truthy) exactly
\* when the key is present, and None otherwise.
RegistryHas(model_id) == model_id \in DOMAIN REGISTRY

\* REGISTRY[model_id]["status"] = s on the dictionary reg.
SetStatus(reg, model_id, s) ==
    [reg EXCEPT ![model_id].status = s]

\* persist_metadata: REGISTRY[model_id] = {metadata, status: "uploaded", ...}.
\* created_at is a timestamp nothing reads; it is left out of the record.
persist_metadata(reg, model_id, name) ==
    [m \in DOMAIN reg \cup {model_id} |->
        IF m = model_id THEN [name |-> name, status |-> "uploaded"] ELSE reg[m]]

Init ==
    /\ REGISTRY = [m \in {} |-> None]
    /\ STORE = [m \in UploadCalls |-> "absent"]
    /\ up = [u \in UploadCalls |->
                [pc |-> "idle", name |-> "", bt |-> FALSE, result |-> "none"]]
    /\ rv = [m \in UploadCalls |-> "none"]
    /\ pr = [p \in PromoteCalls |->
                [pc |-> "idle", model_id |-> UnknownId, approver |-> None,
                 result |-> "none", raced |-> {}]]

----------------------------------------------------------------------------
\* upload_model

\* Lines 36-41: parse the metadata header; HTTP 400 when it does not parse,
\* otherwise the call has its metadata and a fresh model id.
\* bt says whether a BackgroundTasks object was passed.
UploadBegin(u, metaOk, name, bt) ==
    /\ up[u].pc = "idle"
    /\ \A v \in UploadCalls : v < u => up[v].pc # "idle"
    /\ up' = [up EXCEPT ![u] =
                IF metaOk
                THEN [pc |-> "store", name |-> name, bt |-> bt, result |-> "none"]
                ELSE [pc |-> "failed", name |-> "", bt |-> FALSE, result |-> "400"]]
    /\ UNCHANGED <<REGISTRY, STORE, rv, pr>>

\* Lines 42-46: os.makedirs, open and shutil.copyfileobj. An OSError of
\* either leaves the handler (HTTP 500) before persist_metadata.
UploadStore_PersistFirst(u, outcome) ==
    /\ up[u].pc = "store"
    /\ STORE' = [STORE EXCEPT ![u] =
                    CASE outcome = "ok" -> "file"
                      [] outcome = "write_fail" -> "dir"
                      [] OTHER -> "absent"]
    /\ REGISTRY' = persist_metadata(REGISTRY, u, up[u].name)
    /\ up' = [up EXCEPT ![u].pc = IF outcome = "ok" THEN "schedule" ELSE "failed",
                        ![u].result = IF outcome = "ok" THEN "none" ELSE "500"]
    /\ UNCHANGED <<rv, pr>>
UploadStore(u, outcome) ==
    /\ up[u].pc = "store"
    /\ STORE' = [STORE EXCEPT ![u] =
                    CASE outcome = "ok" -> "file"
                      [] outcome = "write_fail" -> "dir"
                      [] OTHER -> "absent"]
    /\ up' = [up EXCEPT ![u].pc = IF outcome = "ok" THEN "persist" ELSE "failed",
                        ![u].result = IF outcome = "ok" THEN "none" ELSE "500"]
    /\ UNCHANGED <<REGISTRY, rv, pr>>

\* Line 48: persist_metadata(model_id, meta.dict()).
UploadPersist(u) ==
    /\ up[u].pc = "persist"
    /\ REGISTRY' = persist_metadata(REGISTRY, u, up[u].name)
    /\ up' = [up EXCEPT ![u].pc = "schedule"]
    /\ UNCHANGED <<STORE, rv, pr>>

\* Lines 51-54: add the pipeline to the background tasks, or, with no
\* BackgroundTasks object, call run_validation_and_canary in the handler.
UploadSchedule_Inline(u) ==
    /\ up[u].pc = "schedule"
    /\ rv' = [rv EXCEPT ![u] = "start"]
    /\ up' = [up EXCEPT ![u].pc = "inline"]
    /\ UNCHANGED <<REGISTRY, STORE, pr>>
UploadSchedule(u) ==
    /\ up[u].pc = "schedule"
    /\ rv' = [rv EXCEPT ![u] = IF up[u].bt THEN "queued" ELSE "start"]
    /\ up' = [up EXCEPT ![u].pc = IF up[u].bt THEN "respond" ELSE "inline"]
    /\ UNCHANGED <<REGISTRY, STORE, pr>>

\* Line 56: return {"model_id": ..., "status": "upload_received"}. The
\* framework runs the background tasks once the response has been sent.
UploadReturn(u) ==
    /\ up[u].pc = "respond"
    /\ up' = [up EXCEPT ![u].pc = "returned", ![u].result = "200"]
    /\ rv' = [rv EXCEPT ![u] = IF rv[u] = "queued" THEN "start" ELSE rv[u]]
    /\ UNCHANGED <<REGISTRY, STORE, pr>>

----------------------------------------------------------------------------
\* run_validation_and_canary and orchestrator_create_canary

\* Lines 65-71: the status write of run_validation_and_canary.
RunValidation(m) ==
    /\ rv[m] = "start"
    /\ IF passed
       THEN /\ REGISTRY' = SetStatus(REGISTRY, m, "validated")
            /\ rv' = [rv EXCEPT ![m] = "canary"]
            /\ up' = up
       ELSE /\ REGISTRY' = SetStatus(REGISTRY, m, "validation_failed")
            /\ rv' = [rv EXCEPT ![m] = "done"]
            /\ up' = [up EXCEPT ![m].pc =
                        IF up[m].pc = "inline" THEN "respond" ELSE up[m].pc]
    /\ UNCHANGED <<STORE, pr>>

\* Lines 73-76: orchestrator_create_canary, called from line 69; with it the
\* pipeline returns (into upload_model when it was called from there).
orchestrator_create_canary_NoWrite(m) ==
    /\ rv[m] = "canary"
    /\ rv' = [rv EXCEPT ![m] = "done"]
    /\ up' = [up EXCEPT ![m].pc =
                IF up[m].pc = "inline" THEN "respond" ELSE up[m].pc]
    /\ UNCHANGED <<REGISTRY, STORE, pr>>
orchestrator_create_canary(m) ==
    /\ rv[m] = "canary"
    /\ REGISTRY' = SetStatus(REGISTRY, m, "canary_deployed")
    /\ rv' = [rv EXCEPT ![m] = "done"]
    /\ up' = [up EXCEPT ![m].pc =
                IF up[m].pc = "inline" THEN "respond" ELSE up[m].pc]
    /\ UNCHANGED <<STORE, pr>>

----------------------------------------------------------------------------
\* promote_model

InFlight(p) == pr[p].pc \in {"get", "set"}

\* The ids a caller can name: uuid4 ids are learnt from the response of
\* upload_model alone; any other string is an id the registry does not hold.
KnownIds == {u \in UploadCalls : up[u].pc = "returned"} \cup {UnknownId}

\* Lines 83-84: the approver check, HTTP 403 without an approver.
\* raced records the calls in flight together with this one.
PromoteBegin(p, model_id, approver) ==
    /\ pr[p].pc = "idle"
    /\ \A q \in PromoteCalls : q < p => pr[q].pc # "idle"
    /\ model_id \in KnownIds
    /\ LET others == {q \in PromoteCalls \ {p} : InFlight(q)}
           admitted == Truthy(approver)
       IN pr' = [q \in PromoteCalls |->
                    IF q = p
                    THEN [pc |-> IF admitted THEN "get" ELSE "done",
                          model_id |-> model_id, approver |-> approver,
                          result |-> IF admitted THEN "none" ELSE "403",
                          raced |-> IF admitted THEN others ELSE {}]
                    ELSE IF admitted /\ q \in others
                         THEN [pr[q] EXCEPT !.raced = @ \cup {p}]
                         ELSE pr[q]]
    /\ UNCHANGED <<REGISTRY, STORE, up, rv>>

\* Lines 85-87: info = REGISTRY.get(model_id), HTTP 404 when there is none.
PromoteGet(p) ==
    /\ pr[p].pc = "get"
    /\ LET info == RegistryHas(pr[p].model_id)
       IN pr' = [pr EXCEPT ![p].pc = IF info THEN "set" ELSE "done",
                           ![p].result = IF info THEN "none" ELSE "404"]
    /\ UNCHANGED <<REGISTRY, STORE, up, rv>>

\* Lines 88-89: info["status"] = "promoted" and the 200 response.
PromoteSet(p) ==
    /\ pr[p].pc = "set"
    /\ REGISTRY' = SetStatus(REGISTRY, pr[p].model_id, "promoted")
    /\ pr' = [pr EXCEPT ![p].pc = "done", ![p].result = "ok"]
    /\ UNCHANGED <<STORE, up, rv>>

----------------------------------------------------------------------------
Pipeline(m) == RunValidation(m) \/ orchestrator_create_canary(m)

Next ==
    \/ \E u \in UploadCalls, metaOk \in BOOLEAN, name \in Names, bt \in BOOLEAN :
          UploadBegin(u, metaOk, name, bt)
    \/ \E u \in UploadCalls, outcome \in {"ok", "makedirs_fail", "write_fail"} :
          UploadStore(u, outcome)
    \/ \E u \in UploadCalls : UploadPersist(u)
    \/ \E u \in UploadCalls : UploadSchedule(u)
    \/ \E u \in UploadCalls : UploadReturn(u)
    \/ \E m \in UploadCalls : RunValidation(m)
    \/ \E m \in UploadCalls : orchestrator_create_canary(m)
    \/ \E p \in PromoteCalls, model_id \in ModelIds, approver \in Approvers :
          PromoteBegin(p, model_id, approver)
    \/ \E p \in PromoteCalls : PromoteGet(p)
    \/ \E p \in PromoteCalls : PromoteSet(p)

Spec == Init /\ [][Next]_vars

\* A background task that has been handed to the worker pool runs.
FairSpec == Spec /\ \A m \in UploadCalls : WF_vars(Pipeline(m))

----------------------------------------------------------------------------
\* Properties

Status(m) == REGISTRY[m].status
Promoted(m) == m \in DOMAIN REGISTRY /\ Status(m) = "promoted"

\* C1: at most one record per name has status promoted, in every state.
C1_AtMostOnePromoted ==
    \A m1, m2 \in DOMAIN REGISTRY :
        (m1 # m2 /\ REGISTRY[m1].name = REGISTRY[m2].name)
            => ~(Promoted(m1) /\ Promoted(m2))

\* C2: a promote_model call writes promoted only onto a record whose status
\* is the canary status; in every other status the call does not succeed.
C2_PromoteOnlyFromCanary ==
    [][\A p \in PromoteCalls :
          (pr[p].result # "ok" /\ pr'[p].result = "ok")
              => Status(pr[p].model_id) = "canary_deployed"]_vars

\* C3: of the promote_model calls that race for records of one name at most
\* one succeeds, and two such records are never promoted together.
C3_OneWinnerPerRace ==
    \A p, q \in PromoteCalls :
        (p # q /\ q \in pr[p].raced /\ pr[p].result = "ok" /\ pr[q].result = "ok")
            => REGISTRY[pr[p].model_id].name # REGISTRY[pr[q].model_id].name

\* C4: a promoted record stays promoted or becomes retired; the pipeline
\* never overwrites promoted.
C4_PromotedOnlyRetires ==
    [][\A m \in DOMAIN REGISTRY :
          Status(m) = "promoted" => REGISTRY'[m].status \in {"promoted", "retired"}]_vars

\* C5: an upload_model call that ends in an error (metadata that does not
\* parse, or a storage failure) adds no registry entry for its model id,
\* changes no existing entry and schedules no pipeline run.
C5_UploadFailsClosed ==
    /\ [](\A u \in UploadCalls :
            up[u].pc = "failed" => (u \notin DOMAIN REGISTRY /\ rv[u] = "none"))
    /\ [][\A u \in UploadCalls :
            (up[u].pc # "failed" /\ up'[u].pc = "failed")
                => (REGISTRY' = REGISTRY /\ rv' = rv)]_vars

C5_Witness ==
    \E u, w \in UploadCalls :
        /\ up[u].pc = "failed"
        /\ up[u].result = "500"
        /\ STORE[u] = "dir"
        /\ w \in DOMAIN REGISTRY
        /\ Status(w) = "canary_deployed"

\* C6: a promote_model call with no or an empty approver is denied (403)
\* whatever the model id and the record's status, and a call that is denied
\* (403 or 404) leaves the registry as it was.
C6_ApproverRequired ==
    /\ [](\A p \in PromoteCalls :
            (pr[p].pc # "idle" /\ pr[p].approver \in {None, ""})
                => (pr[p].pc = "done" /\ pr[p].result = "403"))
    /\ [][\A p \in PromoteCalls :
            (pr[p].result = "none" /\ pr'[p].result \in {"403", "404"})
                => REGISTRY' = REGISTRY]_vars

C6_Witness ==
    \E p, q \in PromoteCalls :
        /\ pr[p].result = "403"
        /\ pr[p].model_id \in DOMAIN REGISTRY
        /\ pr[q].result = "404"

C8_LifecycleOrder ==
    [][\A m \in DOMAIN REGISTRY :
          /\ (Status(m) # "canary_deployed" /\ REGISTRY'[m].status = "canary_deployed")
                => Status(m) = "validated"
          /\ (Status(m) # "validated" /\ REGISTRY'[m].status = "validated")
                => Status(m) = "uploaded"]_vars

\* C9: no record ever has status validation_failed, and every run of
\* run_validation_and_canary sets its record to validated and goes on to
\* orchestrator_create_canary.
C9_ValidationAlwaysPasses ==
    /\ [](\A m \in DOMAIN REGISTRY : Status(m) # "validation_failed")
    /\ [][\A m \in UploadCalls :
            (rv[m] = "start" /\ rv'[m] # "start")
                => (REGISTRY'[m].status = "validated" /\ rv'[m] = "canary")]_vars

C9_Witness ==
    \E m \in UploadCalls : rv[m] = "canary" /\ Status(m) = "validated"

\* C10: under FairSpec, the record of every upload_model call that has
\* returned eventually has status canary_deployed or promoted (so it does
\* not stay uploaded or validated), whatever promote_model calls interleave.
C10_Progress ==
    \A u \in UploadCalls :
        (up[u].pc = "returned")
            ~> (u \in DOMAIN REGISTRY
                    /\ Status(u) \in {"canary_deployed", "promoted"})

C10_Witness ==
    \E u \in UploadCalls, p \in PromoteCalls :
        /\ up[u].bt
        /\ rv[u] = "done"
        /\ pr[p].result = "ok"
        /\ pr[p].model_id = u
        /\ Status(u) = "canary_deployed"

====
